---- MODULE Spec2Model ----
(***************************************************************************)
(* Model of scripts/update_readme_date.py: the "Last updated" stamp        *)
(* updater (update_readme) and its command-line entry point (main).        *)
(*                                                                         *)
(* Text is modelled as a sequence of one-character strings, so that        *)
(* splitting, trimming, pattern matching, joining and the text-mode        *)
(* newline translation of the file read are computed character by          *)
(* character, the way the Python code and its library calls compute them.  *)
(***************************************************************************)
EXTENDS Integers, Sequences, FiniteSets, TLC

(***************************************************************************)
(* Bounds of the model.                                                    *)
(***************************************************************************)
\* longest initial document, in line pieces (body + terminator)
MaxLines == 2
\* number of distinct calendar days the clock / the date argument ranges over
NumDates == 2
\* number of successive update_readme calls made by a direct (API) caller
MaxCalls == 2
\* number of overwrites of the target by another process
MaxOther == 1
\* longest initial document where the write may fail
MaxFailLines == 1
\* longest initial document where another process writes too
MaxConcLines == 1

(***************************************************************************)
(* Characters and text constants.                                          *)
(***************************************************************************)
LF == "\n"
CR == "\r"
FF == "\f"
TAB == "\t"
SP == " "

\* "Last updated: " as written by the f-strings of lines 22 and 43
StampPrefix == <<"L", "a", "s", "t", " ", "u", "p", "d", "a", "t", "e", "d", ":", " ">>

\* the literal part of the regular expression of line 13, "last updated:"
PatternLiteral == <<"l", "a", "s", "t", " ", "u", "p", "d", "a", "t", "e", "d", ":">>

DigitChar == <<"1", "2", "3", "4", "5", "6", "7", "8", "9">>

\* strftime("%Y-%m-%d") of the i-th day of the modelled period: 2024-01-0i
DateStr(i) == <<"2", "0", "2", "4", "-", "0", "1", "-", "0", DigitChar[i]>>

Dates == {DateStr(i) : i \in 1..NumDates}

\* f"Last updated: {date_str}"
Stamp(d) == StampPrefix \o d

(***************************************************************************)
(* Character classes of str.strip(), of \s and \d, and of re.IGNORECASE.   *)
(***************************************************************************)
\* str.isspace() / \s, restricted to the characters of the model
IsSpace(c) == c \in {SP, TAB, LF, CR, FF}

\* \d, restricted to the ASCII digits
IsDigit(c) == c \in {"0", "1", "2", "3", "4", "5", "6", "7", "8", "9"}

\* case folding of re.IGNORECASE for the letters of the pattern
Lower(c) ==
    CASE c = "L" -> "l"
      [] c = "A" -> "a"
      [] c = "S" -> "s"
      [] c = "T" -> "t"
      [] c = "U" -> "u"
      [] c = "P" -> "p"
      [] c = "D" -> "d"
      [] c = "E" -> "e"
      [] OTHER -> c

\* the line boundaries str.splitlines() recognises, restricted to the model's
\* characters (it also splits on \v, \x1c, \x1d, \x1e, \x85, U+2028, U+2029)
IsLineBreak(c) == c \in {LF, CR, FF}

(***************************************************************************)
(* String functions.                                                       *)
(***************************************************************************)
\* str.endswith("\n")
EndsWithLF(s) == Len(s) > 0 /\ s[Len(s)] = LF

\* str.strip(): drop leading and trailing whitespace
Strip(s) ==
    LET keep == {i \in 1..Len(s) : ~IsSpace(s[i])}
    IN  IF keep = {} THEN <<>>
        ELSE LET lo == CHOOSE i \in keep : \A j \in keep : i <= j
                 hi == CHOOSE i \in keep : \A j \in keep : j <= i
             IN  SubSeq(s, lo, hi)

\* \d{4}-\d{2}-\d{2} at positions p .. p+9 of s
DateAt(s, p) ==
    /\ p + 9 <= Len(s)
    /\ \A k \in {0, 1, 2, 3, 5, 6, 8, 9} : IsDigit(s[p + k])
    /\ s[p + 4] = "-"
    /\ s[p + 7] = "-"

\* _LAST_UPDATED_PATTERN.match(s):
\*   ^last updated:\s*\d{4}-\d{2}-\d{2}\s*$  with re.IGNORECASE
PatternMatch(s) ==
    LET n == Len(PatternLiteral)
    IN  /\ Len(s) >= n + 10
        /\ \A i \in 1..n : Lower(s[i]) = PatternLiteral[i]
        /\ \E p \in (n + 1)..(Len(s) - 9) :
              /\ \A i \in (n + 1)..(p - 1) : IsSpace(s[i])
              /\ DateAt(s, p)
              /\ \A i \in (p + 10)..Len(s) : IsSpace(s[i])

\* the test of line 33
IsStampLine(line) == PatternMatch(Strip(line))

\* index of the last character of the first line of a non-empty text
FirstLineEnd(s) ==
    LET brk == {i \in 1..Len(s) : IsLineBreak(s[i])}
    IN  IF brk = {} THEN Len(s)
        ELSE LET b == CHOOSE i \in brk : \A j \in brk : i <= j
             IN  IF s[b] = CR /\ b < Len(s) /\ s[b + 1] = LF THEN b + 1 ELSE b

RECURSIVE splitlines(_)
\* str.splitlines(keepends=True)
splitlines(s) ==
    IF s = <<>> THEN <<>>
    ELSE LET e == FirstLineEnd(s)
         IN  <<SubSeq(s, 1, e)>> \o splitlines(SubSeq(s, e + 1, Len(s)))

RECURSIVE join(_)
\* "".join(lines)
join(ls) == IF ls = <<>> THEN <<>> ELSE Head(ls) \o join(Tail(ls))

RECURSIVE UniversalNewlines(_)
\* text-mode read (newline=None): "\r\n" and "\r" are translated to "\n"
UniversalNewlines(b) ==
    IF b = <<>> THEN <<>>
    ELSE IF b[1] = CR
         THEN IF Len(b) > 1 /\ b[2] = LF
              THEN <<LF>> \o UniversalNewlines(SubSeq(b, 3, Len(b)))
              ELSE <<LF>> \o UniversalNewlines(Tail(b))
         ELSE <<b[1]>> \o UniversalNewlines(Tail(b))

\* os.linesep of the platform the script runs on (POSIX)
LineSep == <<LF>>

RECURSIVE EncodeText(_)
\* text-mode write (newline=None): every "\n" is written as os.linesep
EncodeText(t) ==
    IF t = <<>> THEN <<>>
    ELSE (IF t[1] = LF THEN LineSep ELSE <<t[1]>>) \o EncodeText(Tail(t))

(***************************************************************************)
(* update_readme, lines 25-50, as functions of the text read.              *)
(***************************************************************************)
\* path.read_text(encoding="utf-8") if path.exists() else ""
ReadOriginal(exists, bytes) == IF exists THEN UniversalNewlines(bytes) ELSE <<>>

\* _normalize_line
_normalize_line(line, d) == Stamp(d) \o (IF EndsWithLF(line) THEN <<LF>> ELSE <<>>)

\* the loop of lines 32-37
ScanLines(ls, d) ==
    [i \in 1..Len(ls) |-> IF IsStampLine(ls[i]) THEN _normalize_line(ls[i], d) ELSE ls[i]]

\* the flag `replaced` after the loop
Replaced(ls) == \E i \in 1..Len(ls) : IsStampLine(ls[i])

\* lines 40-42 left out: the last line is kept as it is
EnsureTrailingLF_skipped(ul) == ul

\* lines 40-42: make the last line end with "\n"
EnsureTrailingLF(ul) ==
    IF ul # <<>> /\ ~EndsWithLF(ul[Len(ul)])
    THEN [ul EXCEPT ![Len(ul)] = @ \o <<LF>>]
    ELSE ul

\* lines 39-43
AppendStamp(ul, d) == Append(EnsureTrailingLF(ul), Stamp(d) \o <<LF>>)

\* updated_lines at line 45
UpdatedLines(ls, d) == IF Replaced(ls) THEN ScanLines(ls, d) ELSE AppendStamp(ScanLines(ls, d), d)

\* line 47 without its test: always write
NeedsWrite_always(new, orig) == TRUE

\* the test of line 47
NeedsWrite(new, orig) == new # orig

\* line 48 writing back what is on disk now instead of new_content
WriteData_stale(new, current) == current

\* the data handed to path.write_text at line 48
WriteData(new, current) == EncodeText(new)

\* open(path, "a"): the old content stays and the data is added after it
OpenTruncate_append(old) == old

\* open(path, "w") truncates the file before any data is written
OpenTruncate(old) == <<>>

(***************************************************************************)
(* main, lines 53-78.                                                      *)
(***************************************************************************)
\* line 69 without its test: a missing target is not noticed
TargetMissing_unchecked(exists) == FALSE

\* the test of line 69
TargetMissing(exists) == ~exists

\* line 76 asking the clock again instead of printing date_str
PrintedValue_now(ds, today) == today

\* the value printed at line 76
PrintedValue(ds, today) == ds

(***************************************************************************)
(* Initial documents: up to MaxLines pieces, each a body and a terminator. *)
(***************************************************************************)
Bodies ==
    { <<>>,
      <<"#", " ", "T">>,
      Stamp(DateStr(1)),
      <<SP, "L", "A", "S", "T", " ", "U", "p", "d", "a", "t", "e", "d", ":", TAB,
        "2", "0", "1", "9", "-", "1", "2", "-", "3", "1", SP>> }

\* a piece with an empty body after one ended by CR makes a CR LF pair
Terminators == { <<>>, <<LF>>, <<CR>>, <<FF>> }

Pieces == {b \o t : b \in Bodies, t \in Terminators}

RECURSIVE DocsUpTo(_)
DocsUpTo(n) ==
    IF n = 0 THEN {<<>>}
    ELSE LET shorter == DocsUpTo(n - 1)
         IN  shorter \cup {d \o p : d \in shorter, p \in Pieces}

Docs == DocsUpTo(MaxLines)

\* what another process may write over the target
OtherDocs == { <<"x", LF>>, Stamp(DateStr(1)) \o <<LF>> }

(***************************************************************************)
(* State.                                                                  *)
(***************************************************************************)
VARIABLES
    fileExists,     \* path.exists() of the target
    fileContent,    \* the characters stored in the target file
    clock,          \* index of the current UTC day
    mode,           \* "cli": main is run; "api": update_readme is called directly
    print_date,     \* args.print_date
    pc,             \* position of the running invocation
    date_str,       \* the date_str argument / local of main
    original,       \* update_readme: original
    lines,          \* update_readme: lines
    updated_lines,  \* update_readme: updated_lines
    replaced,       \* update_readme: replaced
    new_content,    \* update_readme: new_content
    before,         \* the target as it was when the running call read it
    writes,         \* number of write_text calls of the running call
    calls,          \* one record per finished update_readme call
    stdout,         \* what main printed
    status,         \* exit status of main, -1 while none
    failed,         \* the write raised an I/O error
    otherWrites,    \* overwrites done by another process so far
    lastWriter      \* who wrote the target last

vars == <<fileExists, fileContent, clock, mode, print_date, pc, date_str, original,
          lines, updated_lines, replaced, new_content, before, writes, calls, stdout,
          status, failed, otherWrites, lastWriter>>

locals == <<original, lines, updated_lines, replaced, new_content, before, writes>>

NoSnapshot == [exists |-> FALSE, content |-> <<>>, others |-> 0]

\* the state before the invocation, the target being absent or one of D,
\* the invocation being of one of the kinds M
InitWith(D, M) ==
    /\ mode \in M
    /\ fileExists \in BOOLEAN
    /\ fileContent \in (IF fileExists THEN D ELSE {<<>>})
    /\ clock = 1
    /\ print_date \in (IF mode = "cli" THEN BOOLEAN ELSE {FALSE})
    /\ pc = "start"
    /\ date_str = <<>>
    /\ original = <<>>
    /\ lines = <<>>
    /\ updated_lines = <<>>
    /\ replaced = FALSE
    /\ new_content = <<>>
    /\ before = NoSnapshot
    /\ writes = 0
    /\ calls = <<>>
    /\ stdout = <<>>
    /\ status = -1
    /\ failed = FALSE
    /\ otherWrites = 0
    /\ lastWriter = "none"

Init == InitWith(Docs, {"api", "cli"})

InitFail == InitWith(DocsUpTo(MaxFailLines), {"api", "cli"})

InitConc == InitWith(DocsUpTo(MaxConcLines), {"api"})

(***************************************************************************)
(* The environment: the calendar day changes; a direct caller.             *)
(***************************************************************************)
\* midnight UTC passes while main runs
Tick ==
    /\ mode = "cli"
    /\ pc # "exited"
    /\ clock < NumDates
    /\ clock' = clock + 1
    /\ UNCHANGED <<fileExists, fileContent, mode, print_date, pc, date_str, locals,
                   calls, stdout, status, failed, otherWrites, lastWriter>>

\* update_readme(path, date_str=d) called directly, MaxCalls times in
\* succession with the same date
ApiCall ==
    /\ mode = "api"
    /\ pc \in {"start", "returned"}
    /\ Len(calls) < MaxCalls
    /\ \E d \in Dates :
          /\ calls # <<>> => d = date_str
          /\ date_str' = d
    /\ pc' = "read"
    /\ UNCHANGED <<fileExists, fileContent, clock, mode, print_date, locals, calls,
                   stdout, status, failed, otherWrites, lastWriter>>

(***************************************************************************)
(* main.                                                                   *)
(***************************************************************************)
\* lines 67-70: parse the arguments, reject a target that does not exist
MainParse ==
    /\ mode = "cli"
    /\ pc = "start"
    /\ IF TargetMissing(fileExists)
       THEN /\ status' = 2         \* parser.error: usage message, SystemExit(2)
            /\ pc' = "exited"
       ELSE /\ status' = status
            /\ pc' = "main_date"
    /\ UNCHANGED <<fileExists, fileContent, clock, mode, print_date, date_str, locals,
                   calls, stdout, failed, otherWrites, lastWriter>>

\* line 72: date_str = _current_utc_date(); line 73 enters update_readme
MainDate ==
    /\ pc = "main_date"
    /\ date_str' = DateStr(clock)
    /\ pc' = "read"
    /\ UNCHANGED <<fileExists, fileContent, clock, mode, print_date, locals, calls,
                   stdout, status, failed, otherWrites, lastWriter>>

\* lines 75-78: print the date if asked to, return 0
MainPrint ==
    /\ mode = "cli"
    /\ pc = "returned"
    /\ stdout' = IF print_date
                 THEN Append(stdout, PrintedValue(date_str, DateStr(clock)))
                 ELSE stdout
    /\ status' = 0
    /\ pc' = "exited"
    /\ UNCHANGED <<fileExists, fileContent, clock, mode, print_date, date_str, locals,
                   calls, failed, otherWrites, lastWriter>>

(***************************************************************************)
(* update_readme.                                                          *)
(***************************************************************************)
\* line 26
UR_Read ==
    /\ pc = "read"
    /\ original' = ReadOriginal(fileExists, fileContent)
    /\ before' = [exists |-> fileExists, content |-> fileContent, others |-> otherWrites]
    /\ writes' = 0
    /\ pc' = "compute"
    /\ UNCHANGED <<fileExists, fileContent, clock, mode, print_date, date_str, lines,
                   updated_lines, replaced, new_content, calls, stdout, status, failed,
                   otherWrites, lastWriter>>

\* lines 27-45
UR_Compute ==
    /\ pc = "compute"
    /\ lines' = splitlines(original)
    /\ replaced' = Replaced(lines')
    /\ updated_lines' = UpdatedLines(lines', date_str)
    /\ new_content' = join(updated_lines')
    /\ pc' = "write"
    /\ UNCHANGED <<fileExists, fileContent, clock, mode, print_date, date_str, original,
                   before, writes, calls, stdout, status, failed, otherWrites, lastWriter>>

\* the record of a call that returned r after w writes, leaving the target as a
CallRecord(r, w, a) ==
    [date |-> date_str, before |-> before, original |-> original, lines |-> lines,
     replaced |-> replaced, updated_lines |-> updated_lines, new_content |-> new_content,
     atWrite |-> [exists |-> fileExists, content |-> fileContent, others |-> otherWrites],
     ret |-> r, writes |-> w, after |-> a]

\* lines 47-49: the content differs, overwrite the file and return True
UR_Write ==
    /\ pc = "write"
    /\ NeedsWrite(new_content, original)
    /\ fileContent' = OpenTruncate(fileContent) \o WriteData(new_content, fileContent)
    /\ fileExists' = TRUE
    /\ lastWriter' = "updater"
    /\ writes' = writes + 1
    /\ calls' = Append(calls, CallRecord(TRUE, writes', fileContent'))
    /\ pc' = "returned"
    /\ UNCHANGED <<clock, mode, print_date, date_str, original, lines, updated_lines,
                   replaced, new_content, before, stdout, status, failed, otherWrites>>

\* line 50: the content is the same, return False without writing
UR_Unchanged ==
    /\ pc = "write"
    /\ ~NeedsWrite(new_content, original)
    /\ calls' = Append(calls, CallRecord(FALSE, writes, fileContent))
    /\ pc' = "returned"
    /\ UNCHANGED <<fileExists, fileContent, clock, mode, print_date, date_str, locals,
                   stdout, status, failed, otherWrites, lastWriter>>

\* line 48 raising an I/O error: open(path, "w") failed and the file is as it
\* was, or it succeeded (the file is created or truncated) and only the first
\* k characters of the data reached the file
UR_WriteFail ==
    /\ pc = "write"
    /\ NeedsWrite(new_content, original)
    /\ writes' = writes + 1
    /\ \/ UNCHANGED <<fileExists, fileContent, lastWriter>>
       \/ \E k \in 0..Len(WriteData(new_content, fileContent)) :
             /\ fileContent' = OpenTruncate(fileContent)
                                 \o SubSeq(WriteData(new_content, fileContent), 1, k)
             /\ fileExists' = TRUE
             /\ lastWriter' = "updater"
    /\ failed' = TRUE
    /\ status' = 1                 \* the exception propagates out of main
    /\ pc' = "exited"
    /\ UNCHANGED <<clock, mode, print_date, date_str, original, lines, updated_lines,
                   replaced, new_content, before, calls, stdout, otherWrites>>

\* another process overwrites the target between the read of line 26 and the
\* write of line 48
OtherWrite ==
    /\ pc \in {"compute", "write"}
    /\ otherWrites < MaxOther
    /\ \E c \in OtherDocs :
          /\ fileContent' = c
          /\ fileExists' = TRUE
    /\ otherWrites' = otherWrites + 1
    /\ lastWriter' = "other"
    /\ UNCHANGED <<clock, mode, print_date, pc, date_str, locals, calls, stdout, status,
                   failed>>

(***************************************************************************)
(* Specifications.                                                         *)
(***************************************************************************)
Next ==
    \/ Tick
    \/ ApiCall
    \/ MainParse
    \/ MainDate
    \/ MainPrint
    \/ UR_Read
    \/ UR_Compute
    \/ UR_Write
    \/ UR_Unchanged

\* one invocation with exclusive access to the target and no I/O error
Spec == Init /\ [][Next]_vars

NextFail == Next \/ UR_WriteFail

\* the write may fail
SpecFail == InitFail /\ [][NextFail]_vars

NextConc ==
    \/ ApiCall
    \/ UR_Read
    \/ UR_Compute
    \/ UR_Write
    \/ UR_Unchanged
    \/ OtherWrite

\* another process writes the target while update_readme calls run
SpecConc == InitConc /\ [][NextConc]_vars

(***************************************************************************)
(* Vocabulary of the properties.                                           *)
(***************************************************************************)
\* the finished calls
Finished == {calls[i] : i \in 1..Len(calls)}

\* the text a call produces from the target it read, as one function
Computed(c) ==
    join(UpdatedLines(splitlines(ReadOriginal(c.before.exists, c.before.content)), c.date))

\* p is a prefix of s
IsPrefix(p, s) == Len(p) <= Len(s) /\ SubSeq(s, 1, Len(p)) = p

\* sub occurs in s
Contains(s, sub) ==
    \E k \in 1..(Len(s) - Len(sub) + 1) : SubSeq(s, k, k + Len(sub) - 1) = sub

\* the line break a line of splitlines carries, <<>> if it carries none
LineTerminator(l) ==
    IF l = <<>> \/ ~IsLineBreak(l[Len(l)]) THEN <<>>
    ELSE IF l[Len(l)] = LF /\ Len(l) > 1 /\ l[Len(l) - 1] = CR THEN <<CR, LF>>
    ELSE <<l[Len(l)]>>

\* a line of splitlines without its line break
LineBody(l) == SubSeq(l, 1, Len(l) - Len(LineTerminator(l)))

\* the indices of the lines the scan found to be stamp lines
StampIndices(c) == {i \in 1..Len(c.lines) : IsStampLine(c.lines[i])}

(***************************************************************************)
(* C1.  Idempotence: of two successive calls of update_readme on the same  *)
(* path with the same date_str, the first returning True, the second       *)
(* returns False, writes nothing and leaves the content the first call     *)
(* left.  (The claim also expects True of the first call on every content; *)
(* that part is taken as the hypothesis here, so that a violation is a     *)
(* second call that changes the file again.)                               *)
(***************************************************************************)
C1_Idempotence ==
    (mode = "api" /\ Len(calls) >= 2 /\ calls[1].ret = TRUE) =>
        /\ calls[2].date = calls[1].date
        /\ calls[2].ret = FALSE
        /\ calls[2].writes = 0
        /\ calls[2].after = calls[1].after

(***************************************************************************)
(* C2.  After a call has returned, the document has at least one line      *)
(* matching the stamp pattern, and every line that matched before the      *)
(* rewrite contains the new date after it.                                 *)
(***************************************************************************)
C2_PostRunStamp ==
    \A c \in Finished :
        LET out == splitlines(c.new_content)
        IN  /\ \E i \in 1..Len(out) : IsStampLine(out[i])
            /\ \A i \in StampIndices(c) :
                  i <= Len(c.updated_lines) /\ Contains(c.updated_lines[i], c.date)

(***************************************************************************)
(* C3.  A call writes at most once; it writes exactly when the text it     *)
(* built differs from the text it read; it returns True exactly when it    *)
(* wrote; a target that is already "Last updated: <date_str>\n" is         *)
(* reported unchanged and is not written.                                  *)
(***************************************************************************)
C3_WriteOnlyOnChange ==
    \A c \in Finished :
        /\ c.writes <= 1
        /\ (c.writes = 1) <=> (c.new_content # c.original)
        /\ c.ret <=> (c.writes = 1)
        /\ c.writes = 0 => c.after = c.before.content
        /\ c.writes = 1 => c.after = EncodeText(c.new_content)
        /\ (c.before.exists /\ c.before.content = Stamp(c.date) \o <<LF>>) =>
              /\ ~c.ret
              /\ c.writes = 0
              /\ c.after = c.before.content

\* a call found the target to be exactly the current stamp line
C3_Witness ==
    \E c \in Finished :
        /\ c.before.exists
        /\ c.before.content = Stamp(c.date) \o <<LF>>
        /\ ~c.ret

(***************************************************************************)
(* C4.  When some line matches, the output has as many lines as the        *)
(* input, every matching line is replaced in place by exactly              *)
(* "Last updated: <date_str>", and every other line is unchanged.          *)
(***************************************************************************)
C4_ShapeKept ==
    \A c \in Finished :
        StampIndices(c) # {} =>
            LET out == splitlines(c.new_content)
            IN  /\ Len(out) = Len(c.lines)
                /\ \A i \in 1..Len(c.lines) :
                      IF i \in StampIndices(c)
                      THEN LineBody(out[i]) = Stamp(c.date)
                      ELSE out[i] = c.lines[i]

C6_UsageError ==
    /\ (mode = "cli" /\ ~fileExists) =>
          /\ pc \in {"start", "exited"}
          /\ pc = "exited" => status = 2
          /\ calls = <<>>
          /\ before = NoSnapshot
          /\ writes = 0
          /\ fileContent = <<>>
          /\ lastWriter = "none"
          /\ stdout = <<>>
    /\ status = 2 => (mode = "cli" /\ ~fileExists /\ pc = "exited")
    /\ \A c \in Finished :
          ~c.before.exists => (c.ret /\ fileExists /\ c.after = Stamp(c.date) \o <<LF>>)

\* main has rejected a missing target
C6_Witness == mode = "cli" /\ ~fileExists /\ pc = "exited" /\ status = 2

(***************************************************************************)
(* C7.  main run on an existing target computes the date once, updates,    *)
(* and returns 0; the date is printed exactly when --print-date was        *)
(* given, after the update, and it is the date every rewritten or          *)
(* appended stamp line of the run carries.                                 *)
(***************************************************************************)
C7_SuccessfulRun ==
    mode = "cli" =>
        /\ (pc = "exited" /\ fileExists) => status = 0
        /\ stdout # <<>> => (print_date /\ status = 0 /\ Len(calls) = 1)
        /\ status = 0 =>
              /\ pc = "exited"
              /\ Len(calls) = 1
              /\ stdout = IF print_date THEN <<calls[1].date>> ELSE <<>>
              /\ calls[1].date = date_str
              /\ LET c == calls[1]
                     shown == IF print_date THEN stdout[1] ELSE c.date
                 IN  /\ \A i \in StampIndices(c) :
                           IsPrefix(Stamp(shown), c.updated_lines[i])
                     /\ StampIndices(c) = {} =>
                           c.updated_lines[Len(c.updated_lines)] = Stamp(shown) \o <<LF>>
                     /\ c.ret => c.after = EncodeText(join(c.updated_lines))

\* main printed the date of a run during which the calendar day changed
C7_Witness ==
    /\ mode = "cli"
    /\ status = 0
    /\ print_date
    /\ stdout = <<DateStr(1)>>
    /\ clock > 1
    /\ calls[1].ret

(***************************************************************************)
(* C8.  Every replacement is followed by exactly the line break the        *)
(* original line carried, whichever break splitlines recognised, or by     *)
(* none if the line had none.                                              *)
(***************************************************************************)
C8_TerminatorKept ==
    \A c \in Finished :
        \A i \in StampIndices(c) :
            c.updated_lines[i] = Stamp(c.date) \o LineTerminator(c.lines[i])

(***************************************************************************)
(* C9.  As claimed: after a failed write the target holds its complete     *)
(* original content or the complete new content.                           *)
(***************************************************************************)
C9_NoPartialFailure ==
    failed =>
        \/ fileExists = before.exists /\ fileContent = before.content
        \/ fileExists /\ fileContent = EncodeText(new_content)

(***************************************************************************)
(* C9, amended.  The new content is complete in memory before the write    *)
(* begins; after a failed write the target is as it was before, or it      *)
(* holds a prefix of the new content, which may be empty or cut short, and *)
(* never a mix of old and new text.                                        *)
(***************************************************************************)
C9_FailureLeavesPrefix ==
    /\ pc = "write" =>
          /\ new_content = Computed([before |-> before, date |-> date_str])
          /\ writes = 0
          /\ fileExists = before.exists
          /\ fileContent = before.content
    /\ failed =>
          LET data == EncodeText(Computed([before |-> before, date |-> date_str]))
          IN  /\ writes = 1
              /\ \/ fileExists = before.exists /\ fileContent = before.content
                 \/ fileExists /\ IsPrefix(fileContent, data)

\* a failed write left a document cut short
C9_Witness ==
    /\ failed
    /\ fileContent # before.content
    /\ fileContent # <<>>
    /\ fileContent # EncodeText(new_content)
    /\ IsPrefix(fileContent, EncodeText(new_content))

(***************************************************************************)
(* C10.  Last writer wins: with another process overwriting the target     *)
(* between the read and the write, a call that writes leaves exactly the   *)
(* content it computed from what it had read, and a call whose computed    *)
(* content equals what it read writes nothing, so the other process's      *)
(* content stays.                                                          *)
(***************************************************************************)
C10_LastWriterWins ==
    /\ \A c \in Finished :
          /\ c.ret <=> (Computed(c) # c.original)
          /\ c.ret => (c.writes = 1 /\ c.after = EncodeText(Computed(c)))
          /\ ~c.ret => (c.writes = 0 /\ c.after = c.atWrite.content)
    /\ (lastWriter = "updater" /\ calls # <<>>) =>
          fileContent = EncodeText(Computed(calls[Len(calls)]))

\* a call overwrote what another process had written after the call's read
C10_Witness ==
    \E c \in Finished :
        /\ c.atWrite.others > c.before.others
        /\ c.atWrite.content # c.before.content
        /\ c.ret
        /\ c.after # c.atWrite.content
        /\ fileContent = c.after

====
